---------------------------- MODULE Spec2Model ----------------------------
(***************************************************************************)
(* Model of tensor/linear-ops.cc: the expansion drivers PlusEqOp::Expand,  *)
(* PlusEqOp::ExpandCpu, AssignOp::Expand and the product driver            *)
(* AddProduct.  A plan is the sequence `ops`; a fatal error (KALDI_ERR or  *)
(* a failed KALDI_ASSERT) ends the call with outcome "fatal".              *)
(***************************************************************************)
EXTENDS Integers, Sequences, FiniteSets

(***************************************************************************)
(* Bounds of the model.                                                    *)
(***************************************************************************)
\* Size of every nontrivial axis of the operand patterns.
VecDim == 2
\* Largest number of ops already in the caller's list when Expand is called.
MaxPriorOps == 1
\* Cap on the depth of the AddProduct recursion explored by the model.
MaxSwaps == 2

(***************************************************************************)
(* Tensors: element type, device and pattern.  A pattern is the sequence   *)
(* of its axes <<dim, stride>>, element i being raxis i-1.                 *)
(***************************************************************************)
Dtypes == {"kFloat", "kDouble", "kInt32"}

RealDtypes == {"kFloat", "kDouble"}

Devices == {"kCpuDevice", "kCuda"}

Dim(ax) == ax[1]

Stride(ax) == ax[2]

TrivialAxis == <<1, 0>>

\* The operand patterns the calls are made with (strides are non-negative).
\*   <<>>                () scalar
\*   (X)                 contiguous vector
\*   (x)                 strided vector
\*   (xX)                matrix whose rows are not adjacent in memory
\*   (xX) contiguous     matrix whose rows are adjacent (reducible to a vector)
\*   (Xx)                transposed matrix
\*   (X1)                column vector: nontrivial axis is raxis 1
Patterns ==
    { <<>>,
      << <<VecDim, 1>> >>,
      << <<VecDim, 2>> >>,
      << <<VecDim, 1>>, <<VecDim, VecDim + 1>> >>,
      << <<VecDim, 1>>, <<VecDim, VecDim>> >>,
      << <<VecDim, VecDim + 1>>, <<VecDim, 1>> >>,
      << TrivialAxis, <<VecDim, 1>> >> }

Tensors == [id : {"in"}, dtype : Dtypes, device : Devices, pattern : Patterns]

NoTensor == [id |-> "none", dtype |-> "kFloat", device |-> "kCpuDevice", pattern |-> <<>>]

(***************************************************************************)
(* Pattern codes.  The 12-bit code of a pattern: bits 0..7 say which raxes *)
(* have dim != 1, bits 8..10 hold 1 + the raxis whose stride is 1 (0 when  *)
(* none), bit 11 is set when a stride is negative.  So () is 0x000, (X) is *)
(* 0x101, (x) is 0x001, (xX) is 0x103, (Xx) is 0x203 and (X1) is 0x202.    *)
(***************************************************************************)
RECURSIVE Pow2(_)
Pow2(n) == IF n = 0 THEN 1 ELSE 2 * Pow2(n - 1)

RECURSIVE NontrivialMask(_, _)
NontrivialMask(p, i) ==
    IF i > Len(p) THEN 0
    ELSE (IF Dim(p[i]) # 1 THEN Pow2(i - 1) ELSE 0) + NontrivialMask(p, i + 1)

UnitStrideAxes(p) == {i \in 1..Len(p) : Dim(p[i]) # 1 /\ Stride(p[i]) = 1}

HasNegativeStride(p) == \E i \in 1..Len(p) : Stride(p[i]) < 0

GetCode(p) ==
    (IF HasNegativeStride(p) THEN 2048 ELSE 0)
    + 256 * (IF UnitStrideAxes(p) = {} THEN 0
             ELSE CHOOSE i \in UnitStrideAxes(p) : \A j \in UnitStrideAxes(p) : i <= j)
    + NontrivialMask(p, 1)

\* 0xAAABBB: the code of a in the upper 12 bits, the code of b in the lower.
CombineCodes(ca, cb) == ca * 4096 + cb

\* 0xAAABBBCCC, an int64 in the code: kept as its three 12-bit chunks, most
\* significant first, since the value does not fit in 32 bits.
CombineCodes3(ca, cb, cc) == <<ca, cb, cc>>

(***************************************************************************)
(* ReducePatterns / NormalizePatterns, jointly over the operands: axes     *)
(* that are trivial in every operand are dropped, adjacent axes are merged *)
(* where every operand allows it (outer stride = inner dim * inner         *)
(* stride), and each result is cut back to its own rank.  Strides of the   *)
(* operand patterns are non-negative, so the sign normalisation leaves     *)
(* them as they are.                                                       *)
(***************************************************************************)
MaxOf(x, y) == IF x >= y THEN x ELSE y

PadTo(p, n) == p \o [i \in 1..(n - Len(p)) |-> TrivialAxis]

RemoveAt(p, i) == [j \in 1..(Len(p) - 1) |-> IF j < i THEN p[j] ELSE p[j + 1]]

MergeAt(p, i) ==
    [j \in 1..(Len(p) - 1) |->
        IF j < i THEN p[j]
        ELSE IF j = i THEN <<Dim(p[i]) * Dim(p[i + 1]), Stride(p[i])>>
        ELSE p[j + 1]]

JointlyTrivial(ps, i) == \A k \in DOMAIN ps : ps[k][i] = TrivialAxis

CanMerge(ps, i) ==
    \A k \in DOMAIN ps : Stride(ps[k][i + 1]) = Dim(ps[k][i]) * Stride(ps[k][i])

RECURSIVE DropTrivial(_)
DropTrivial(ps) ==
    LET n == Len(ps[1])
        S == {i \in 1..n : JointlyTrivial(ps, i)}
    IN  IF S = {} THEN ps
        ELSE LET i == CHOOSE x \in S : \A y \in S : x <= y
             IN  DropTrivial([k \in DOMAIN ps |-> RemoveAt(ps[k], i)])

RECURSIVE MergeAxes(_)
MergeAxes(ps) ==
    LET n == Len(ps[1])
        S == {i \in 1..(n - 1) : CanMerge(ps, i)}
    IN  IF S = {} THEN ps
        ELSE LET i == CHOOSE x \in S : \A y \in S : x <= y
             IN  MergeAxes([k \in DOMAIN ps |-> MergeAt(ps[k], i)])

RECURSIVE StripOuter(_)
StripOuter(p) ==
    IF Len(p) > 0 /\ p[Len(p)] = TrivialAxis THEN StripOuter(SubSeq(p, 1, Len(p) - 1))
    ELSE p

ReducePatterns(pa, pb) ==
    LET n == MaxOf(Len(pa), Len(pb))
        ps == MergeAxes(DropTrivial(<<PadTo(pa, n), PadTo(pb, n)>>))
    IN  <<StripOuter(ps[1]), StripOuter(ps[2])>>

\* WithPattern(t, p): the same data as t, viewed through pattern p.
WithPattern(t, p) == [t EXCEPT !.pattern = p]

\* Tensor a(a_); if (a_pattern != a_.Impl().pattern) a = WithPattern(a, a_pattern);
ReducedView(t, p) == IF p # t.pattern THEN WithPattern(t, p) ELSE t

\* Tensor temp({num_rows, 1}, {dtype, device}): a new contiguous column vector.
NewColumn(num_rows, dtype, device) ==
    [id |-> "temp", dtype |-> dtype, device |-> device,
     pattern |-> << TrivialAxis, <<num_rows, 1>> >>]

\* SqueezeR(t, 0) / Squeeze(t, 0): remove raxis 0, the other raxes shift down.
SqueezeR(t, raxis) == [t EXCEPT !.pattern = RemoveAt(t.pattern, raxis + 1)]

\* Compatible(a, b): dtype and device match.
Compatible(a, b) == a.dtype = b.dtype /\ a.device = b.device


(***************************************************************************)
(* Ops and results of a call.                                              *)
(***************************************************************************)
\* new OpName<T...>(args): an op of a kernel class, bound to its operands.
\* `sel` holds the template selectors (element types, device).
MakeOp(name, sel, args) == [kernel |-> name, sel |-> sel, args |-> args]

\* An op some earlier expansion left in the caller's list.
PriorOp == MakeOp("Prior", <<>>, <<>>)

PriorLists == {[i \in 1..n |-> PriorOp] : n \in 0..MaxPriorOps}

\* What a call has done when it ends: the caller's list, the ops it
\* constructed (in order), and whether it returned or raised a fatal error.
Returned(list, made) == [ops |-> list, built |-> made, outcome |-> "ok", err |-> "none"]

Fatal(list, made, why) == [ops |-> list, built |-> made, outcome |-> "fatal", err |-> why]

IsReal(dtype) == dtype \in RealDtypes

(***************************************************************************)
(* State.                                                                  *)
(***************************************************************************)
VARIABLES
    req,            \* the operation called: "PlusEq", "Assign", "AddProduct"
    pc,             \* position in the call
    a_, b_, c_,     \* the operand tensors of the call (as the caller sees them)
    in0,            \* <<a_, b_, c_>> as they were when the call was made
    refMode,        \* ReferenceMode()
    haveCuda,       \* HAVE_CUDA == 1
    cpuDef,         \* which definition of PlusEqOp::ExpandCpu ran (0: none)
    ops,            \* the caller's op list (the plan)
    ops0,           \* the caller's op list when the call was made
    built,          \* the ops constructed by the call, in order
    a, b,           \* the operands in the roles a and b of the running code
    combined_code,  \* the dispatch key
    swaps,          \* number of recursive AddProduct calls made by the call
    kernel,         \* the product kernel AddProduct selected ("none" before)
    outcome,        \* "running", "ok" or "fatal"
    err             \* the fatal error raised, "none" otherwise

vars == <<req, pc, a_, b_, c_, in0, refMode, haveCuda, cpuDef, ops, ops0, built,
          a, b, combined_code, swaps, kernel, outcome, err>>

\* The state between two calls.
Quiescent ==
    /\ req = "none"
    /\ pc = "idle"
    /\ a_ = NoTensor /\ b_ = NoTensor /\ c_ = NoTensor
    /\ in0 = <<NoTensor, NoTensor, NoTensor>>
    /\ refMode = FALSE
    /\ cpuDef = 0
    /\ ops = <<>> /\ ops0 = <<>> /\ built = <<>>
    /\ a = NoTensor /\ b = NoTensor
    /\ combined_code = 0
    /\ swaps = 0
    /\ kernel = "none"
    /\ outcome = "ok"
    /\ err = "none"

Init == Quiescent /\ haveCuda \in BOOLEAN

\* The call ends with result r.
Finish(r) ==
    /\ ops' = r.ops
    /\ built' = r.built
    /\ outcome' = r.outcome
    /\ err' = r.err
    /\ pc' = "done"

(***************************************************************************)
(* The caller: makes one call at a time.                                   *)
(***************************************************************************)
StartCall(op, ta, tb, tc, ref, prior, at) ==
    /\ req' = op
    /\ a_' = ta /\ b_' = tb /\ c_' = tc
    /\ in0' = <<ta, tb, tc>>
    /\ refMode' = ref
    /\ ops' = prior /\ ops0' = prior /\ built' = <<>>
    /\ a' = ta /\ b' = tb
    /\ combined_code' = 0
    /\ swaps' = 0
    /\ kernel' = "none"
    /\ cpuDef' = 0
    /\ outcome' = "running"
    /\ err' = "none"
    /\ pc' = at
    /\ UNCHANGED haveCuda

Named(t, name) == [t EXCEPT !.id = name]

CallPlusEq ==
    /\ pc = "idle"
    /\ \E ta \in Tensors, tb \in Tensors, ref \in BOOLEAN, prior \in PriorLists :
         StartCall("PlusEq", Named(ta, "a"), Named(tb, "b"), NoTensor, ref, prior,
                   "PlusEqOp::Expand")

CallAssign ==
    /\ pc = "idle"
    /\ \E ta \in Tensors, tb \in Tensors, ref \in BOOLEAN, prior \in PriorLists :
         StartCall("Assign", Named(ta, "a"), Named(tb, "b"), NoTensor, ref, prior,
                   "AssignOp::Expand")


(***************************************************************************)
(* PlusEqOp::Expand: a += b.                                               *)
(***************************************************************************)
\* Only the device of a_ is looked at.
PlusEqOpExpand ==
    /\ pc = "PlusEqOp::Expand"
    /\ pc' = IF a_.device = "kCpuDevice" THEN "ExpandCpu" ELSE "ExpandCuda"
    /\ UNCHANGED <<req, a_, b_, c_, in0, refMode, haveCuda, cpuDef, ops, ops0, built,
                   a, b, combined_code, swaps, kernel, outcome, err>>

\* Reduce the patterns of copies, rebuild the views a and b, combine the codes.
ReduceOperands ==
    LET red == ReducePatterns(a_.pattern, b_.pattern)
    IN  /\ a' = ReducedView(a_, red[1])
        /\ b' = ReducedView(b_, red[2])
        /\ combined_code' = CombineCodes(GetCode(red[1]), GetCode(red[2]))

\* First definition of ExpandCpu, reference mode: always the reference op.
ExpandCpuReference ==
    /\ pc = "ExpandCpu"
    /\ refMode
    /\ cpuDef' = 1
    /\ LET new_op == MakeOp("PlusEqRefOp", <<a_.dtype>>, <<a_, b_>>)
       IN  Finish(Returned(Append(ops, new_op), <<new_op>>))
    /\ UNCHANGED <<req, a_, b_, c_, in0, refMode, haveCuda, ops0,
                   a, b, combined_code, swaps, kernel>>

ExpandCpuReduce ==
    /\ pc = "ExpandCpu"
    /\ ~refMode
    /\ cpuDef' = 1
    /\ ReduceOperands
    /\ pc' = "ExpandCpu.switch"
    /\ UNCHANGED <<req, a_, b_, c_, in0, refMode, haveCuda, ops, ops0, built,
                   swaps, kernel, outcome, err>>

\* switch(combined_code) of the first definition, then ops->push_back(new_op).
\* x, y are the reduced views, x_, y_ the operands as given.
PlusEqCpuSwitch(x, y, x_, y_, code, list) ==
    LET d == x.dtype
        One(name) ==
            LET new_op == MakeOp(name, <<d>>, <<x, y>>)
            IN  Returned(Append(list, new_op), <<new_op>>)
        RefOp == MakeOp("PlusEqRefCpuOp", <<x_.dtype>>, <<x_, y_>>)
    IN  CASE code = \h000000 -> One("ScalarPlusEqScalarCpuOp")
          [] code \in {\h101101, \h001001, \h101001, \h001101} ->
                One("StvectorPlusEqStvectorCpuOp")
          [] code \in {\h000101, \h000001} -> One("ScalarPlusEqStvectorCpuOp")
          [] code \in {\h101000, \h001000} -> One("StvectorPlusEqScalarCpuOp")
          [] code = \h000103 ->
                LET num_rows == Dim(y.pattern[2])
                    temp == NewColumn(num_rows, d, x.device)
                    op1 == MakeOp("ColVectorEqMatrixCpuOp", <<d>>, <<temp, y>>)
                    temp_normalized == SqueezeR(temp, 0)
                    op2 == MakeOp("ScalarPlusEqStvectorCpuOp", <<d>>, <<x, temp_normalized>>)
                IN  Returned(list \o <<op1, op2>>, <<op1, op2>>)
          [] code \in {\h101103, \h001103} ->
                \* no break: control falls into default, which overwrites new_op
                LET op1 == MakeOp("StvectorPlusEqMatrix", <<d>>, <<>>)
                IN  Returned(Append(list, RefOp), <<op1, RefOp>>)
          [] OTHER -> Returned(Append(list, RefOp), <<RefOp>>)

\* "CPU, but not float or double": case kInt32Dtype has no break either, so
\* every such dtype ends in KALDI_ERR "Unexpected dtype".
PlusEqCpuOtherDtype(x_, y_, list) ==
    IF x_.dtype = "kInt32"
    THEN Fatal(list, <<MakeOp("PlusEqRefOp", <<"kInt32">>, <<x_, y_>>)>>, "Unexpected dtype")
    ELSE Fatal(list, <<>>, "Unexpected dtype")

ExpandCpuDispatch(x, y, x_, y_, code, list) ==
    IF IsReal(x.dtype) THEN PlusEqCpuSwitch(x, y, x_, y_, code, list)
    ELSE PlusEqCpuOtherDtype(x_, y_, list)

ExpandCpuSwitch ==
    /\ pc = "ExpandCpu.switch"
    /\ Finish(ExpandCpuDispatch(a, b, a_, b_, combined_code, ops))
    /\ UNCHANGED <<req, a_, b_, c_, in0, refMode, haveCuda, cpuDef, ops0,
                   a, b, combined_code, swaps, kernel>>

\* Second definition of ExpandCpu: normalizes the patterns, rebuilds the
\* views and returns; it constructs and appends nothing.
ExpandCpuSecond ==
    /\ pc = "ExpandCpu"
    /\ cpuDef' = 2
    /\ ReduceOperands
    /\ Finish(Returned(ops, <<>>))
    /\ UNCHANGED <<req, a_, b_, c_, in0, refMode, haveCuda, ops0, swaps, kernel>>

\* The accelerator branch.  Its switch has no scalar += scalar case and no
\* default, and nothing follows it: only the first op of the scalar += matrix
\* case is ever appended.
PlusEqCudaSwitch(x, y, code, list, cuda) ==
    LET d == x.dtype
        sel == <<d, x.device>>
        Built(name) == Returned(list, <<MakeOp(name, sel, <<x, y>>)>>)
    IN  IF ~cuda THEN Fatal(list, <<>>, "not compiled for CUDA")
        ELSE IF ~IsReal(d) THEN Returned(list, <<>>)
        ELSE CASE code \in {\h101101, \h001001, \h101001, \h001101} ->
                    Built("StvectorPlusEqStvectorCudaOp")
               [] code \in {\h000101, \h000001} -> Built("ScalarPlusEqStvectorCudaOp")
               [] code \in {\h101000, \h001000} -> Built("StvectorPlusEqScalarCudaOp")
               [] code = \h000103 ->
                    LET num_rows == Dim(y.pattern[2])
                        temp == NewColumn(num_rows, d, x.device)
                        op1 == MakeOp("ColVectorEqMatrixOp", sel, <<temp, y>>)
                        temp_normalized == SqueezeR(temp, 0)
                        op2 == MakeOp("ScalarPlusEqStvectorOp", sel, <<x, temp_normalized>>)
                    IN  Returned(Append(list, op1), <<op1, op2>>)
               [] OTHER -> Returned(list, <<>>)

ExpandCudaReduce ==
    /\ pc = "ExpandCuda"
    /\ ReduceOperands
    /\ pc' = "ExpandCuda.switch"
    /\ UNCHANGED <<req, a_, b_, c_, in0, refMode, haveCuda, cpuDef, ops, ops0, built,
                   swaps, kernel, outcome, err>>

ExpandCudaSwitch ==
    /\ pc = "ExpandCuda.switch"
    /\ Finish(PlusEqCudaSwitch(a, b, combined_code, ops, haveCuda))
    /\ UNCHANGED <<req, a_, b_, c_, in0, refMode, haveCuda, cpuDef, ops0,
                   a, b, combined_code, swaps, kernel>>

(***************************************************************************)
(* AssignOp::Expand: a = b.                                                *)
(***************************************************************************)
\* The device and type checks at the head of the function.
AssignHeadCheck(x_, y_) ==
    IF x_.dtype # y_.dtype /\ x_.device # y_.device
    THEN "Cross-device copying combined with type convesion not supported yet."
    ELSE IF x_.device # y_.device THEN "Cross-device copying not supported yet."
    ELSE "none"

AssignCheck ==
    /\ pc = "AssignOp::Expand"
    /\ IF AssignHeadCheck(a_, b_) # "none"
       THEN Finish(Fatal(ops, <<>>, AssignHeadCheck(a_, b_)))
       ELSE pc' = "Assign.mode" /\ UNCHANGED <<ops, built, outcome, err>>
    /\ UNCHANGED <<req, a_, b_, c_, in0, refMode, haveCuda, cpuDef, ops0,
                   a, b, combined_code, swaps, kernel>>

AssignReference ==
    /\ pc = "Assign.mode"
    /\ refMode /\ a_.device = "kCpuDevice"
    /\ LET new_op == MakeOp("AssignRefOp", <<a_.dtype, b_.dtype>>, <<a_, b_>>)
       IN  Finish(Returned(Append(ops, new_op), <<new_op>>))
    /\ UNCHANGED <<req, a_, b_, c_, in0, refMode, haveCuda, cpuDef, ops0,
                   a, b, combined_code, swaps, kernel>>

\* NormalizePatterns, KALDI_ASSERT(Compatible(a_, b_)), the views, the code.
AssignReduce ==
    /\ pc = "Assign.mode"
    /\ ~(refMode /\ a_.device = "kCpuDevice")
    /\ IF Compatible(a_, b_)
       THEN /\ ReduceOperands
            /\ pc' = "Assign.switch"
            /\ UNCHANGED <<ops, built, outcome, err>>
       ELSE /\ Finish(Fatal(ops, <<>>, "KALDI_ASSERT: Compatible(a_, b_)"))
            /\ UNCHANGED <<a, b, combined_code>>
    /\ UNCHANGED <<req, a_, b_, c_, in0, refMode, haveCuda, cpuDef, ops0, swaps, kernel>>

\* switch(combined_code) of AssignOp::Expand, then ops->push_back(new_op).
\* SET_TO_TEMPLATED_OP_REAL has an op for the real element types only.
AssignSwitchBody(x, y, code, list) ==
    LET d == x.dtype
        sel == <<d, x.device>>
        One(name) ==
            LET new_op == MakeOp(name, sel, <<x, y>>)
            IN  Returned(Append(list, new_op), <<new_op>>)
        Unhandled(made_list, made) == Fatal(made_list, made, "Unhandled code")
        Fast == {\h000000, \h101101, \h001001, \h101001, \h001101,
                 \h000101, \h000001, \h101000, \h001000, \h000103}
    IN  IF code \in Fast /\ ~IsReal(d) THEN Fatal(list, <<>>, "Unexpected dtype")
        ELSE CASE code = \h000000 -> One("ScalarPlusEqScalarOp")
               [] code \in {\h101101, \h001001, \h101001, \h001101} ->
                    One("StvectorPlusEqStvectorOp")
               [] code \in {\h000101, \h000001} -> One("ScalarPlusEqStvectorOp")
               [] code \in {\h101000, \h001000} -> One("StvectorPlusEqScalarOp")
               [] code = \h000103 ->
                    \* no break after the block: control falls into default
                    LET num_rows == Dim(y.pattern[2])
                        temp == NewColumn(num_rows, d, x.device)
                        op1 == MakeOp("ColVectorEqMatrixOp", sel, <<temp, y>>)
                        temp_normalized == SqueezeR(temp, 0)
                        op2 == MakeOp("ScalarPlusEqStvectorOp", sel, <<x, temp_normalized>>)
                    IN  Unhandled(Append(list, op1), <<op1, op2>>)
               [] OTHER -> Unhandled(list, <<>>)

AssignSwitch ==
    /\ pc = "Assign.switch"
    /\ Finish(AssignSwitchBody(a, b, combined_code, ops))
    /\ UNCHANGED <<req, a_, b_, c_, in0, refMode, haveCuda, cpuDef, ops0,
                   a, b, combined_code, swaps, kernel>>


(***************************************************************************)
(* AddProduct: c += alpha * (a . b).                                       *)
(***************************************************************************)
CallAddProduct ==
    /\ pc = "idle"
    /\ \E ta \in Tensors, tb \in Tensors, tc \in Tensors :
         StartCall("AddProduct", Named(ta, "a"), Named(tb, "b"), Named(tc, "c"),
                   FALSE, <<>>, "AddProduct")

\* pattern.code of a tensor.
Code(t) == GetCode(t.pattern)

\* Variants of the comparison, as a slip in it would make them.
NeedSwapOrEqual(x, y) == Code(x) <= Code(y)

NeedSwapReversed(x, y) == Code(x) > Code(y)

\* if (a.pattern.code < b.pattern.code)
NeedSwap(x, y) == Code(x) < Code(y)

\* AddProduct(alpha, beta, b, a, c); return;  -- the callee runs with a and b
\* exchanged, and the caller returns as soon as the callee does.
AddProductSwap ==
    /\ pc = "AddProduct"
    /\ NeedSwap(a, b)
    /\ swaps < MaxSwaps
    /\ a' = b /\ b' = a
    /\ swaps' = swaps + 1
    /\ UNCHANGED <<req, pc, a_, b_, c_, in0, refMode, haveCuda, cpuDef, ops, ops0,
                   built, combined_code, kernel, outcome, err>>

\* CheckDeviceAndDtype(a, b, c): one device and one element type for all three.
CheckDeviceAndDtype(x, y, z) ==
    /\ x.device = y.device /\ y.device = z.device
    /\ x.dtype = y.dtype /\ y.dtype = z.dtype

AddProductCheck ==
    /\ pc = "AddProduct"
    /\ ~NeedSwap(a, b)
    /\ IF CheckDeviceAndDtype(a, b, c_)
       THEN /\ combined_code' = CombineCodes3(Code(a), Code(b), Code(c_))
            /\ pc' = "AddProduct.switch"
            /\ UNCHANGED <<ops, built, outcome, err>>
       ELSE /\ Finish(Fatal(ops, <<>>, "CheckDeviceAndDtype"))
            /\ UNCHANGED combined_code
    /\ UNCHANGED <<req, a_, b_, c_, in0, refMode, haveCuda, cpuDef, ops0,
                   a, b, swaps, kernel>>

\* switch(combined_code): the kernel called, "default" when no case matches.
ProductKernel(code) ==
    CASE code = <<\h000, \h000, \h000>> -> "AddProductScalar3"
      [] code = <<\h101, \h000, \h101>> -> "AddProductVecScalarVec"
      [] code = <<\h101, \h101, \h101>> -> "AddProductVec3"
      [] code = <<\h103, \h101, \h202>> -> "AddProductMatVecVec"
      [] code = <<\h203, \h101, \h202>> -> "AddProductTmatVecVec"
      [] code = <<\h202, \h101, \h103>> -> "AddProductVec2Mat"
      [] OTHER -> "default"

AddProductSwitch ==
    /\ pc = "AddProduct.switch"
    /\ kernel' = ProductKernel(combined_code)
    /\ IF ProductKernel(combined_code) # "default"
       THEN Finish(Returned(ops, <<>>))
       ELSE pc' = "AddProduct.generic" /\ UNCHANGED <<ops, built, outcome, err>>
    /\ UNCHANGED <<req, a_, b_, c_, in0, refMode, haveCuda, cpuDef, ops0,
                   a, b, combined_code, swaps>>

\* PadAxes(&p1, &p2, &p3): trivial axes are added until the ranks match.
PadAxes(p1, p2, p3) ==
    LET n == MaxOf(Len(p1), MaxOf(Len(p2), Len(p3)))
    IN  <<PadTo(p1, n), PadTo(p2, n), PadTo(p3, n)>>

\* The generic path: a_temp, b_temp, c_temp are copies, but PadAxes is given
\* the patterns of a, b and c themselves; CompressPatterns gets the copies.
AddProductGeneric ==
    /\ pc = "AddProduct.generic"
    /\ LET padded == PadAxes(a_.pattern, b_.pattern, c_.pattern)
       IN  /\ a_' = WithPattern(a_, padded[1])
           /\ b_' = WithPattern(b_, padded[2])
           /\ c_' = WithPattern(c_, padded[3])
    /\ Finish(Returned(ops, <<>>))
    /\ UNCHANGED <<req, in0, refMode, haveCuda, cpuDef, ops0,
                   a, b, combined_code, swaps, kernel>>

\* The call is over (it returned, or its fatal error reached the caller); the
\* caller goes on to its next request.
Return ==
    /\ pc = "done"
    /\ req' = "none"
    /\ pc' = "idle"
    /\ a_' = NoTensor /\ b_' = NoTensor /\ c_' = NoTensor
    /\ in0' = <<NoTensor, NoTensor, NoTensor>>
    /\ refMode' = FALSE
    /\ cpuDef' = 0
    /\ ops' = <<>> /\ ops0' = <<>> /\ built' = <<>>
    /\ a' = NoTensor /\ b' = NoTensor
    /\ combined_code' = 0
    /\ swaps' = 0
    /\ kernel' = "none"
    /\ outcome' = "ok"
    /\ err' = "none"
    /\ UNCHANGED haveCuda

(***************************************************************************)
(* The program.                                                          *)
(***************************************************************************)
Next ==
    \/ CallPlusEq
    \/ CallAssign
    \/ CallAddProduct
    \/ PlusEqOpExpand
    \/ ExpandCpuReference
    \/ ExpandCpuReduce
    \/ ExpandCpuSwitch
    \/ ExpandCpuSecond
    \/ ExpandCudaReduce
    \/ ExpandCudaSwitch
    \/ AssignCheck
    \/ AssignReference
    \/ AssignReduce
    \/ AssignSwitch
    \/ AddProductSwap
    \/ AddProductCheck
    \/ AddProductSwitch
    \/ AddProductGeneric
    \/ Return

Spec == Init /\ [][Next]_vars


(***************************************************************************)
(* Properties.                                                             *)
(***************************************************************************)
\* The call of a binary driver (a += b or a = b) is over.
BinaryDone == pc = "done" /\ req \in {"PlusEq", "Assign"}

\* The combined code of the reduced patterns of the operands of the call.
KeyOfCall ==
    LET red == ReducePatterns(in0[1].pattern, in0[2].pattern)
    IN  CombineCodes(GetCode(red[1]), GetCode(red[2]))

\* The ops the call appended to the caller's list.
Appended == SubSeq(ops, Len(ops0) + 1, Len(ops))

KeptPrior == Len(ops) >= Len(ops0) /\ SubSeq(ops, 1, Len(ops0)) = ops0

\* Same element type and device, a real element type, the backend of the
\* device built in, not CPU reference mode, and (for a += b on CPU) the first
\* definition of ExpandCpu: the calls for which the fast-path dispatch of the
\* claims is meant to run.
FastPathCall ==
    /\ Compatible(in0[1], in0[2])
    /\ IsReal(in0[1].dtype)
    /\ in0[1].device = "kCuda" => haveCuda
    /\ ~(refMode /\ in0[1].device = "kCpuDevice")
    /\ cpuDef # 2

FastPathKeys ==
    {\h000000, \h101101, \h001001, \h101001, \h001101, \h000101, \h000001,
     \h101000, \h001000, \h000103, \h101103, \h001103}

ReferenceKernels == {"PlusEqRefOp", "PlusEqRefCpuOp", "PlusEqRefCudaOp", "AssignRefOp"}

\* C1: for a += b and a = b, on either device, a call whose combined code is
\* scalar-op-matrix (0x000103) returns normally having appended exactly two
\* ops: first the reduction of matrix b into a new column temporary of shape
\* {b.dims[1], 1}, then the reduction of the squeezed temporary into scalar a.
C1_ScalarMatrixTwoOps ==
    (BinaryDone /\ FastPathCall /\ KeyOfCall = \h000103) =>
        /\ outcome = "ok"
        /\ KeptPrior
        /\ Len(Appended) = 2
        /\ Appended[1].kernel \in {"ColVectorEqMatrixCpuOp", "ColVectorEqMatrixOp"}
        /\ Appended[1].args =
              <<NewColumn(Dim(b.pattern[2]), a.dtype, a.device), b>>
        /\ Appended[2].kernel \in {"ScalarPlusEqStvectorCpuOp", "ScalarPlusEqStvectorOp"}
        /\ Appended[2].args =
              <<a, SqueezeR(NewColumn(Dim(b.pattern[2]), a.dtype, a.device), 0)>>

\* C2: for a += b and a = b, on either device, a call whose combined code is
\* none of the fast-path keys returns normally with exactly one op appended,
\* the reference op; it never ends in an error.
C2_UnmatchedCodeGetsReferenceOp ==
    (BinaryDone /\ FastPathCall /\ KeyOfCall \notin FastPathKeys) =>
        /\ outcome = "ok"
        /\ KeptPrior
        /\ Len(Appended) = 1
        /\ Appended[1].kernel \in ReferenceKernels

\* C3: a += b on CPU outside reference mode with combined code vector +=
\* matrix (0x101103 or 0x001103) appends one op, the row-reduction kernel
\* StvectorPlusEqMatrix bound to the reduced operands, not the reference op.
C3_VectorMatrixRowReduction ==
    (BinaryDone /\ req = "PlusEq" /\ FastPathCall /\ in0[1].device = "kCpuDevice"
        /\ KeyOfCall \in {\h101103, \h001103}) =>
        /\ outcome = "ok"
        /\ KeptPrior
        /\ Len(Appended) = 1
        /\ Appended[1].kernel = "StvectorPlusEqMatrix"
        /\ Appended[1].args = <<a, b>>

\* C4: a += b or a = b with a and b on different devices ends in a fatal
\* error with no op constructed and none appended, whatever the element
\* types, the patterns and the reference mode are.
C4_CrossDeviceIsFatal ==
    (BinaryDone /\ cpuDef # 2 /\ in0[1].device # in0[2].device) =>
        /\ outcome = "fatal"
        /\ built = <<>>
        /\ ops = ops0

\* C5: a call of a += b or a = b that ends in a fatal error leaves the
\* caller's op list as it was when the call was made.
C5_NoPartialPlan ==
    (BinaryDone /\ outcome = "fatal") => ops = ops0

\* C6: a = b with both operands on one device and different element types
\* does not fail for the type difference, in reference mode or outside it:
\* it passes the compatibility checks and goes on to the dispatch.
C6_AssignToleratesTypeDifference ==
    (pc = "done" /\ req = "Assign" /\ in0[1].device = in0[2].device
        /\ in0[1].dtype # in0[2].dtype) =>
        err \notin {"KALDI_ASSERT: Compatible(a_, b_)",
                    "Cross-device copying combined with type convesion not supported yet."}

\* AddProduct has passed its canonicalization and compatibility check.
AtProductDispatch ==
    /\ req = "AddProduct"
    /\ \/ pc \in {"AddProduct.switch", "AddProduct.generic"}
       \/ pc = "done" /\ outcome = "ok"

\* C7: the recursion of AddProduct makes at most one swap; after a swap the
\* callee sees a.code > b.code and does not recurse again, every call gets
\* past the canonicalization, and at the dispatch a.code >= b.code.
C7_CanonicalizationTerminates ==
    req = "AddProduct" =>
        /\ swaps <= 1
        /\ swaps = 1 => Code(a) > Code(b)
        /\ (pc = "AddProduct" /\ NeedSwap(a, b)) => swaps = 0
        /\ AtProductDispatch => Code(a) >= Code(b)

\* A call that swapped its operands is at the dispatch switch.
C7_Witness ==
    /\ req = "AddProduct"
    /\ pc = "AddProduct.switch"
    /\ swaps = 1
    /\ Code(in0[1]) < Code(in0[2])

\* The operands a and b of a call in the order the dispatch sees them: the
\* one with the larger code first.  For unequal codes it is the same pair
\* whichever way round the two tensors are passed.
Canonical(x, y) == IF Code(x) > Code(y) THEN <<x, y>> ELSE <<y, x>>

\* C8 as stated: with unequal codes, operands passed in ascending order
\* (a's code less than b's) are not swapped, operands passed in descending
\* order are swapped exactly once, and both orders give the same ternary
\* code, kernel branch and operand roles.
C8_AscendingNeedsNoSwap ==
    (AtProductDispatch /\ Code(in0[1]) # Code(in0[2])) =>
        /\ Code(in0[1]) < Code(in0[2]) => swaps = 0
        /\ Code(in0[1]) > Code(in0[2]) => swaps = 1
        /\ <<a, b>> = Canonical(in0[1], in0[2])

\* C8 amended: with unequal codes, operands passed in ascending order (a's
\* code less than b's) are swapped exactly once, operands passed in
\* descending order are not swapped, and both orders give the same ternary
\* code, kernel branch and operand roles: the tensor with the larger code is
\* dispatched as a, the other as b.
C8_AscendingSwapsOnce ==
    (AtProductDispatch /\ Code(in0[1]) # Code(in0[2])) =>
        /\ Code(in0[1]) < Code(in0[2]) => swaps = 1
        /\ Code(in0[1]) > Code(in0[2]) => swaps = 0
        /\ <<a, b>> = Canonical(in0[1], in0[2])
        /\ combined_code =
              <<Code(Canonical(in0[1], in0[2])[1]), Code(Canonical(in0[1], in0[2])[2]),
                Code(in0[3])>>
        /\ pc # "AddProduct.switch" => kernel = ProductKernel(combined_code)

\* A call with operands in ascending order has selected a product kernel
\* after one swap.
C8_Witness ==
    /\ req = "AddProduct"
    /\ pc = "done" /\ outcome = "ok"
    /\ Code(in0[1]) < Code(in0[2])
    /\ swaps = 1
    /\ kernel = "AddProductMatVecVec"

\* C9: after a call of PlusEqOp expansion, AssignOp::Expand or AddProduct
\* (its generic path included) the pattern, element type and device of the
\* operands a, b and c are what they were before the call.
C9_InputsUnchanged ==
    pc = "done" => <<a_, b_, c_>> = in0

\* C10: a call of a += b or a = b that returns without a fatal error has
\* appended at least one op, and every op it constructed has been appended
\* exactly once.
C10_ConstructedOpsAppendedOnce ==
    (BinaryDone /\ cpuDef # 2 /\ Compatible(in0[1], in0[2]) /\ outcome = "ok") =>
        /\ KeptPrior
        /\ Len(Appended) >= 1
        /\ \A i \in DOMAIN built :
              Cardinality({j \in DOMAIN Appended : Appended[j] = built[i]}) = 1

=============================================================================
